---- MODULE Spec2Model ----
(***************************************************************************)
(* Model of DataReader (src/ExperimentalDataReader.py): the table          *)
(* self.data, the two-file reader read_from_d_t with its time-alignment    *)
(* merge, the calibration setters and compute_dlts_pf.                     *)
(*                                                                         *)
(* Values.  A cell of the table is a tuple: NaN (numpy.nan, an unset or    *)
(* missing cell) is the empty tuple, a number is the rational <<n, d>> in  *)
(* lowest terms with d > 0, a timestamp is <<seconds>>, a string is        *)
(* <<"text">>.  A DataFrame is the sequence of its rows, row i having      *)
(* index label i - 1 (the RangeIndex pandas gives a parsed file).          *)
(***************************************************************************)
EXTENDS Integers, Sequences, FiniteSets, TLC

VARIABLES data, op, err, arg

vars == <<data, op, err, arg>>

\* ------------------------------------------------------------------ bounds
\* Largest time of day (in seconds) a file row carries.
MaxTod == 2
\* Most rows of a signal file.
MaxSigRows == 2
\* Most rows of a temperature file.
MaxTempRows == 2
\* Most DD.MM.YYYY matches in the text of a signal file.
MaxDates == 2

\* ------------------------------------------------------------------ values
NaN == <<>>

Abs(x) == IF x < 0 THEN -x ELSE x

RECURSIVE Gcd(_, _)
Gcd(a, b) == IF b = 0 THEN a ELSE Gcd(b, a % b)

\* The rational n / d (d # 0) in lowest terms, the sign on the numerator.
Rat(n, d) ==
    LET g == Gcd(Abs(n), Abs(d))
        s == IF d < 0 THEN -1 ELSE 1
    IN  <<(s * n) \div g, (s * d) \div g>>

Num(n) == <<n, 1>>

\* Float division a / b with NaN propagation (b is never zero here: bs, ls and
\* the constants 10 and 10000 are non-zero).
Div(a, b) == IF a = NaN \/ b = NaN THEN NaN ELSE Rat(a[1] * b[2], a[2] * b[1])

Mul(a, b) == IF a = NaN \/ b = NaN THEN NaN ELSE Rat(a[1] * b[1], a[2] * b[2])

\* ------------------------------------------------------------------- table
columns == {"time", "frequency_hz", "dlts_v", "temperature_k", "dlts_pf",
            "bs", "ls", "f_pulse", "u1", "ur", "time_between_meas",
            "integral_time", "specimen_name"}

\* The row a reindex fills in: every cell NaN.
NaNRow == [c \in columns |-> NaN]

\* df.col = values for a column of values, one per row.
AssignColumn(df, col, values) ==
    [i \in 1..Len(df) |-> [df[i] EXCEPT ![col] = values[i]]]

\* A setter that writes its value to the first row only.
SetColumnFirstRow(df, col, value) ==
    [i \in 1..Len(df) |-> IF i = 1 THEN [df[i] EXCEPT ![col] = value] ELSE df[i]]

\* df[col] = value for a scalar value: the value is broadcast to every row of
\* the column (no row when the frame is empty), the other columns stay.
SetColumn(df, col, value) == [i \in 1..Len(df) |-> [df[i] EXCEPT ![col] = value]]

\* x in allowed_values (Python list membership).
In(x, allowed_values) == \E i \in 1..Len(allowed_values) : allowed_values[i] = x

\* The call that ran last: op is its name, err the exception it raised and the
\* line that raised it ("" when it returned), arg its argument.  A read that
\* raised keeps only the sizes of its inputs.
Call(name, outcome, argument) ==
    /\ op' = name
    /\ err' = outcome
    /\ arg' = argument

last == [op |-> op, arg |-> arg, raised |-> err # "", err |-> err]

\* A conversion with the bridge ratio upside down: bs / 10 for 10 / bs.
DltsPfInverted(df) ==
    [i \in 1..Len(df) |->
        Div(df[i].dlts_v, Mul(Div(df[i].bs, Num(10)), Div(Num(10000), df[i].ls)))]

\* dlts_v / ((10 / bs) * (10000 / ls)), row by row.
DltsPf(df) ==
    [i \in 1..Len(df) |->
        Div(df[i].dlts_v, Mul(Div(Num(10), df[i].bs), Div(Num(10000), df[i].ls)))]

\* ------------------------------------------------------------- constructor
Init ==
    /\ data = <<>>
    /\ op = "__init__"
    /\ err = ""
    /\ arg = NaN

\* ------------------------------------------------------------------ setters
set_specimen_name(specimen_name) ==
    /\ Call("set_specimen_name", "", specimen_name)
    /\ data' = SetColumn(data, "specimen_name", specimen_name)

bs_allowed_values == <<Num(1), Num(10), Num(100), Num(1000), NaN>>

\* set_bs writing the column before it validates the value.
set_bs_write_first(bs) ==
    /\ Call("set_bs", IF In(bs, bs_allowed_values) THEN "" ELSE "ValueError:232", bs)
    /\ data' = SetColumn(data, "bs", bs)

\* set_bs converting the signal again once the sensitivity has changed.
set_bs_recompute(bs) ==
    IF In(bs, bs_allowed_values)
    THEN /\ Call("set_bs", "", bs)
         /\ data' = LET df == SetColumn(data, "bs", bs)
                    IN  AssignColumn(df, "dlts_pf", DltsPf(df))
    ELSE /\ Call("set_bs", "ValueError:232", bs)
         /\ data' = data

set_bs(bs) ==
    IF In(bs, bs_allowed_values)
    THEN /\ Call("set_bs", "", bs)
         /\ data' = SetColumn(data, "bs", bs)
    ELSE /\ Call("set_bs", "ValueError:232", bs)
         /\ data' = data

ls_allowed_values ==
    <<Num(1), Num(2), Num(5), Num(10), Num(20), Num(50), Num(100), Num(200),
      Num(500), Num(1000), NaN>>

set_ls(ls) ==
    IF In(ls, ls_allowed_values)
    THEN /\ Call("set_ls", "", ls)
         /\ data' = SetColumn(data, "ls", ls)
    ELSE /\ Call("set_ls", "ValueError:259", ls)
         /\ data' = data

set_f_pulse(f_pulse) ==
    /\ Call("set_f_pulse", "", f_pulse)
    /\ data' = SetColumn(data, "f_pulse", f_pulse)

set_u1(u1) ==
    /\ Call("set_u1", "", u1)
    /\ data' = SetColumn(data, "u1", u1)

set_ur(ur) ==
    /\ Call("set_ur", "", ur)
    /\ data' = SetColumn(data, "ur", ur)

set_time_between_meas(time) ==
    /\ Call("set_time_between_meas", "", time)
    /\ data' = SetColumn(data, "time_between_meas", time)

integral_time_allowed_values == <<Rat(3, 10), Num(1), Num(3), Num(10), Num(30), NaN>>

set_integral_time(time) ==
    IF In(time, integral_time_allowed_values)
    THEN /\ Call("set_integral_time", "", time)
         /\ data' = SetColumn(data, "integral_time", time)
    ELSE /\ Call("set_integral_time", "ValueError:340", time)
         /\ data' = data

\* ---------------------------------------------------------- compute_dlts_pf
\* self.data.dlts_pf = self.data.dlts_v / ((10 / self.data.bs)*(10000 / self.data.ls))
compute_dlts_pf ==
    /\ Call("compute_dlts_pf", "", NaN)
    /\ data' = AssignColumn(data, "dlts_pf", DltsPf(data))

\* ------------------------------------------------------------ read_from_d_t
\* Seconds in a day of the model: a time of day is in 0..MaxTod.
SecondsPerDay == MaxTod + 1

\* series + date_str, date_str being the LIST re.findall returns: the list is
\* added element by element.  A list of one date is broadcast to every row, a
\* list as long as the series gives row i the i-th date, any other length
\* raises ValueError.  The result pairs each time of day with its date.
AddDates(times, date_str) ==
    IF Len(date_str) = Len(times)
    THEN [ok |-> TRUE,
          value |-> [i \in 1..Len(times) |-> <<times[i], date_str[i]>>]]
    ELSE IF Len(date_str) = 1
    THEN [ok |-> TRUE,
          value |-> [i \in 1..Len(times) |-> <<times[i], date_str[1]>>]]
    ELSE [ok |-> FALSE, value |-> <<>>]

\* pd.to_datetime(..., format='%H:%M:%S %d.%m.%Y') of one "time date" string.
ToDatetime(s) == s[2] * SecondsPerDay + s[1]

\* frame with its time column replaced by the parsed timestamps.
WithTime(frame, stamped) ==
    [i \in 1..Len(frame) |-> [frame[i] EXCEPT !.time = ToDatetime(stamped[i])]]

\* The rows of frame in ascending time, rows of equal time in their order in
\* the frame (the stable sort resample applies to its time axis).
RECURSIVE SortByTime(_)
SortByTime(frame) ==
    IF frame = <<>> THEN <<>>
    ELSE LET lo == CHOOSE i \in 1..Len(frame) :
                       \A j \in 1..Len(frame) :
                           \/ frame[i].time < frame[j].time
                           \/ (frame[i].time = frame[j].time /\ i <= j)
             rest == [k \in 1..(Len(frame) - 1) |->
                         IF k < lo THEN frame[k] ELSE frame[k + 1]]
         IN  <<frame[lo]>> \o SortByTime(rest)

HasDuplicateTime(frame) ==
    \E i, j \in 1..Len(frame) : i # j /\ frame[i].time = frame[j].time

\* A resample that fills each second from the next row (bfill), not the last.
Bfill(sorted) ==
    IF sorted = <<>> THEN <<>>
    ELSE LET first == sorted[1].time
             final == sorted[Len(sorted)].time
             Nxt(sec) == CHOOSE i \in 1..Len(sorted) :
                             /\ sorted[i].time >= sec
                             /\ \A j \in 1..Len(sorted) :
                                    sorted[j].time >= sec => j >= i
         IN  [g \in 1..(final - first + 1) |->
                 [time |-> first + g - 1,
                  temperature_k |-> sorted[Nxt(first + g - 1)].temperature_k]]

\* resample('S').ffill() of the sorted frame: one row per second from the
\* first to the last timestamp, each with the temperature of the last row at
\* or before that second.
Ffill(sorted) ==
    IF sorted = <<>> THEN <<>>
    ELSE LET first == sorted[1].time
             final == sorted[Len(sorted)].time
             Pad(sec) == CHOOSE i \in 1..Len(sorted) :
                             /\ sorted[i].time <= sec
                             /\ \A j \in 1..Len(sorted) :
                                    sorted[j].time <= sec => j <= i
         IN  [g \in 1..(final - first + 1) |->
                 [time |-> first + g - 1,
                  temperature_k |-> sorted[Pad(first + g - 1)].temperature_k]]

\* An as-of join: the left row takes the last right row at or before its time,
\* so the last temperature is carried past the end of the grid.
JoinRowAsof(l, right) ==
    LET hits == SelectSeq(right, LAMBDA r : r.time <= l.time)
    IN  <<[time |-> <<l.time>>, frequency_hz |-> l.frequency_hz,
           dlts_v |-> l.dlts_v,
           temperature_k |-> IF hits = <<>> THEN NaN
                             ELSE hits[Len(hits)].temperature_k]>>

\* The rows a left join emits for one left row: one per right row of the same
\* time, or one with a NaN temperature when there is none.
JoinRow(l, right) ==
    LET hits == SelectSeq(right, LAMBDA r : r.time = l.time)
    IN  IF hits = <<>>
        THEN <<[time |-> <<l.time>>, frequency_hz |-> l.frequency_hz,
                dlts_v |-> l.dlts_v, temperature_k |-> NaN]>>
        ELSE [h \in 1..Len(hits) |->
                 [time |-> <<l.time>>, frequency_hz |-> l.frequency_hz,
                  dlts_v |-> l.dlts_v, temperature_k |-> hits[h].temperature_k]]

\* dlts_data.merge(right=temperature_data, how='left', on='time')
RECURSIVE Merge(_, _)
Merge(left, right) ==
    IF left = <<>> THEN <<>>
    ELSE JoinRow(Head(left), right) \o Merge(Tail(left), right)

column_list == {"time", "frequency_hz", "dlts_v", "temperature_k"}

\* self.data[column_list] = merged.  Each column of merged is assigned as a
\* Series: a frame with an empty index takes the index of a non-empty Series
\* (its other columns filled with NaN); a frame that has rows keeps its own
\* index, and the Series is aligned to it: an index label the Series lacks
\* gets NaN, a label only the Series has is dropped.
SetItem(df, merged) ==
    LET rows == IF Len(df) = 0 THEN Len(merged) ELSE Len(df)
        old(i) == IF Len(df) = 0 THEN NaNRow ELSE df[i]
    IN  [i \in 1..rows |->
            [c \in columns |->
                IF c \in column_list
                THEN IF i <= Len(merged) THEN merged[i][c] ELSE NaN
                ELSE old(i)[c]]]

\* What a raising read leaves in the call record.
Sizes(d, t, dates) == [n_d |-> Len(d), n_t |-> Len(t), n_dates |-> Len(dates)]

\* d: the parsed rows of the signal file, t: the parsed rows of the
\* temperature file, dates: the DD.MM.YYYY matches in the signal file's text.
read_from_d_t(d, t, dates) ==
    LET dlts_time == AddDates([i \in 1..Len(d) |-> d[i].time], dates)
        temperature_time == AddDates([i \in 1..Len(t) |-> t[i].time], dates)
        dlts_data == WithTime(d, dlts_time.value)
        temperature_data == WithTime(t, temperature_time.value)
        raised == IF ~dlts_time.ok THEN "ValueError:138"
                  ELSE IF ~temperature_time.ok THEN "ValueError:141"
                  ELSE IF HasDuplicateTime(temperature_data) THEN "ValueError:145"
                  ELSE ""
    IN  IF raised # ""
        THEN /\ Call("read_from_d_t", raised, Sizes(d, t, dates))
             /\ data' = data
        ELSE /\ Call("read_from_d_t", "", [d |-> d, t |-> t, dates |-> dates])
             /\ data' = SetItem(data, Merge(dlts_data,
                                            Ffill(SortByTime(temperature_data))))

\* ------------------------------------------------------------------ inputs
\* Sequences over S of length at most n.
RECURSIVE SeqsUpTo(_, _)
SeqsUpTo(S, n) ==
    IF n = 0 THEN {<<>>}
    ELSE LET shorter == SeqsUpTo(S, n - 1)
         IN  shorter \cup {Append(q, x) : q \in {r \in shorter : Len(r) = n - 1}, x \in S}

Tods == 0..MaxTod

\* A parsed signal file whose rows carry the given times of day.  The
\* frequency and the signal of a row tell its position in the file.
SigFile(tods) ==
    [i \in 1..Len(tods) |->
        [time |-> tods[i], frequency_hz |-> Num(10 * i), dlts_v |-> Rat(2 * i - 3, 2)]]

\* A parsed temperature file; the temperature of a row tells its position.
TempFile(tods) ==
    [j \in 1..Len(tods) |-> [time |-> tods[j], temperature_k |-> Num(300 + j)]]

\* Days a DD.MM.YYYY match can name.
Dates == {1, 2}

SigFiles == {SigFile(tods) : tods \in SeqsUpTo(Tods, MaxSigRows)}
TempFiles == {TempFile(tods) : tods \in SeqsUpTo(Tods, MaxTempRows)}
DateLists == SeqsUpTo(Dates, MaxDates)

\* ------------------------------------------- SpecRead: the reader alone
ReadAny == \E d \in SigFiles, t \in TempFiles, dates \in DateLists :
               read_from_d_t(d, t, dates)

NextRead == ReadAny

SpecRead == Init /\ [][NextRead]_vars

\* ------------------------------- Spec: every operation, on a few file pairs
FewSigFiles == {SigFile(<<0, 2>>), SigFile(<<1>>)}
FewTempFiles == {TempFile(<<0, 1>>)}

ReadFew == \E d \in FewSigFiles, t \in FewTempFiles : read_from_d_t(d, t, <<1>>)

SetSpecimenName == \E x \in {<<"GaAs">>} : set_specimen_name(x)
SetBs == \E x \in {Num(1), Num(10), Num(5), NaN} : set_bs(x)
SetLs == \E x \in {Num(2), Num(1000), Num(3), NaN} : set_ls(x)
SetFPulse == \E x \in {Num(20), NaN} : set_f_pulse(x)
SetU1 == \E x \in {Num(-1), NaN} : set_u1(x)
SetUr == \E x \in {Num(-4), NaN} : set_ur(x)
SetTimeBetweenMeas == \E x \in {Rat(7, 2), NaN} : set_time_between_meas(x)
SetIntegralTime == \E x \in {Rat(3, 10), Rat(1, 2), NaN} : set_integral_time(x)

Next ==
    \/ ReadFew
    \/ SetSpecimenName
    \/ SetBs
    \/ SetLs
    \/ SetFPulse
    \/ SetU1
    \/ SetUr
    \/ SetTimeBetweenMeas
    \/ SetIntegralTime
    \/ compute_dlts_pf

Spec == Init /\ [][Next]_vars

\* ---- SpecReload: any file pair, read by a freshly constructed reader or by
\* a reader whose table holds one of the few file pairs
HoldsFewFiles ==
    /\ op = "read_from_d_t"
    /\ err = ""
    /\ arg.d \in FewSigFiles
    /\ arg.t \in FewTempFiles
    /\ arg.dates = <<1>>

Reload ==
    /\ op = "__init__" \/ HoldsFewFiles
    /\ ReadAny

NextReload == Reload

SpecReload == Init /\ [][NextReload]_vars

\* --------------------- SpecValidate: the validated setters, on every value
OneFile == \E d \in {SigFile(<<0, 2>>)}, t \in FewTempFiles : read_from_d_t(d, t, <<1>>)

Range(f) == {f[i] : i \in DOMAIN f}

SetBsAny == \E x \in Range(bs_allowed_values) \cup {Num(0), Num(5)} : set_bs(x)
SetLsAny == \E x \in Range(ls_allowed_values) \cup {Num(3), Num(2000)} : set_ls(x)
SetIntegralTimeAny ==
    \E x \in Range(integral_time_allowed_values) \cup {Rat(1, 2), Num(-1)} :
        set_integral_time(x)

NextValidate ==
    \/ OneFile
    \/ SetBsAny
    \/ SetLsAny
    \/ SetIntegralTimeAny
    \/ compute_dlts_pf

SpecValidate == Init /\ [][NextValidate]_vars

\* ================================================================== claims
Min(a, b) == IF a < b THEN a ELSE b

\* The last call was a read_from_d_t that returned.
ReadDone == last.op = "read_from_d_t" /\ ~last.raised

\* The time of day and the day of a timestamp cell.
TodOf(cell) == cell[1] % SecondsPerDay
DayOf(cell) == cell[1] \div SecondsPerDay

\* C1: after every read_from_d_t the table has exactly one row per row of the
\* signal stream, in the stream's order: row i carries the time of day, the
\* frequency and the signal of signal row i.
C1_OneRowPerSignalRow ==
    ReadDone =>
        LET d == last.arg.d
        IN  /\ Len(data) = Len(d)
            /\ \A i \in 1..Len(d) :
                   /\ data[i].time # NaN
                   /\ TodOf(data[i].time) = d[i].time
                   /\ data[i].frequency_hz = d[i].frequency_hz
                   /\ data[i].dlts_v = d[i].dlts_v

\* The rows of the table that hold a row of the signal stream read last.
Held == 1..Min(Len(data), Len(last.arg.d))

\* The timestamps of the rows of the temperature stream read last.
TempStamps ==
    LET t == last.arg.t
        stamped == AddDates([j \in 1..Len(t) |-> t[j].time], last.arg.dates)
    IN  [j \in 1..Len(t) |-> ToDatetime(stamped.value[j])]

\* C2: a signal row whose timestamp lies between the first and the last
\* temperature timestamp (inclusive) carries the temperature of the sample
\* with the greatest timestamp at or before it: never an interpolated value,
\* never the value of a later sample.
C2_ForwardFill ==
    ReadDone =>
        \A i \in Held :
            LET ts == data[i].time[1]
                T == TempStamps
                before == {j \in DOMAIN T : T[j] <= ts}
            IN  (before # {} /\ \E j \in DOMAIN T : ts <= T[j]) =>
                    \E j \in before :
                        /\ \A k \in before : T[k] <= T[j]
                        /\ data[i].temperature_k = last.arg.t[j].temperature_k

\* C2 witness: a signal row strictly inside a gap of at least two seconds
\* between two temperature samples carries the earlier sample's temperature.
C2_Witness ==
    /\ ReadDone
    /\ \E i \in Held : \E j, k \in DOMAIN TempStamps :
           /\ TempStamps[j] < data[i].time[1]
           /\ data[i].time[1] < TempStamps[k]
           /\ data[i].temperature_k = last.arg.t[j].temperature_k
           /\ data[i].temperature_k # last.arg.t[k].temperature_k

\* C3: a signal row whose timestamp precedes the first temperature sample, or
\* lies beyond the end of the per-second grid (the last temperature
\* timestamp), has a null temperature: the last known temperature is not
\* carried past the end of the grid.
C3_NullOutsideGrid ==
    ReadDone =>
        \A i \in Held :
            LET ts == data[i].time[1]
                T == TempStamps
            IN  ((\A j \in DOMAIN T : ts < T[j]) \/ (\A j \in DOMAIN T : T[j] < ts))
                    => data[i].temperature_k = NaN

\* C3 witness: one signal row before the first temperature sample and one
\* after the last, both with a null temperature.
C3_Witness ==
    /\ ReadDone
    /\ Len(last.arg.t) > 0
    /\ \E i, k \in Held :
           /\ \A j \in DOMAIN TempStamps : data[i].time[1] < TempStamps[j]
           /\ \A j \in DOMAIN TempStamps : TempStamps[j] < data[k].time[1]
           /\ data[i].temperature_k = NaN
           /\ data[k].temperature_k = NaN

\* C7: when the signal file's text holds at least one DD.MM.YYYY match, the
\* number of matches does not make the read fail, and every row gets the day
\* of the first match.
C7_FirstMatchDate ==
    last.op = "read_from_d_t" =>
        /\ last.err \in {"ValueError:138", "ValueError:141"} => last.arg.n_dates = 0
        /\ (~last.raised /\ Len(last.arg.dates) >= 1) =>
               \A i \in Held : DayOf(data[i].time) = last.arg.dates[1]

\* C8: an empty stream never makes read_from_d_t fail: an empty temperature
\* stream and n signal rows give a table of n rows with a null temperature in
\* every row, an empty signal stream gives an empty table.
C8_EmptyStreams ==
    last.op = "read_from_d_t" =>
        /\ (last.raised /\ last.arg.n_dates = 1) =>
               /\ last.arg.n_t # 0
               /\ last.arg.n_d = 0 => last.err = "ValueError:145"
        /\ (~last.raised /\ last.arg.t = <<>>) =>
               /\ Len(data) = Len(last.arg.d)
               /\ \A i \in 1..Len(data) : data[i].temperature_k = NaN
        /\ (~last.raised /\ last.arg.d = <<>>) => data = <<>>

\* Two rows of the temperature stream read last carry the same second.
SameSecond == \E j, k \in DOMAIN TempStamps : j < k /\ TempStamps[j] = TempStamps[k]

\* C9: two temperature rows of the same second do not make the merge fail, and
\* a signal row at that second carries the temperature of the later of the
\* two rows.
C9_LastWriteWins ==
    last.op = "read_from_d_t" =>
        /\ last.err # "ValueError:145"
        /\ (~last.raised /\ SameSecond) =>
               \A i \in Held : \A j, k \in DOMAIN TempStamps :
                   (j < k /\ TempStamps[j] = TempStamps[k]
                          /\ TempStamps[k] = data[i].time[1])
                       => data[i].temperature_k # last.arg.t[j].temperature_k

\* The allowed sets the validated setters are documented with.
AllowedBs == {Num(1), Num(10), Num(100), Num(1000), NaN}
AllowedLs == {Num(1), Num(2), Num(5), Num(10), Num(20), Num(50), Num(100),
              Num(200), Num(500), Num(1000), NaN}
AllowedIntegralTime == {Rat(3, 10), Num(1), Num(3), Num(10), Num(30), NaN}

Allowed(name) ==
    IF name = "set_bs" THEN AllowedBs
    ELSE IF name = "set_ls" THEN AllowedLs
    ELSE AllowedIntegralTime

Validated == {"set_bs", "set_ls", "set_integral_time"}

\* C4: a validated setter raises exactly when its value is outside its allowed
\* set, and a call that raises leaves every column of the table as it was.
C4_RejectLeavesTable ==
    [][op' \in Validated =>
          /\ (err' # "") <=> (arg' \notin Allowed(op'))
          /\ (err' # "") => data' = data]_vars

\* C4 witness: set_bs has rejected a value while the table holds rows with a
\* bridge sensitivity set and a converted signal.
C4_Witness ==
    /\ op = "set_bs"
    /\ err # ""
    /\ arg \notin AllowedBs
    /\ Len(data) > 0
    /\ data[1].bs # NaN
    /\ data[1].dlts_pf # NaN

CalibrationColumns == {"bs", "ls", "f_pulse", "u1", "ur", "time_between_meas",
                       "integral_time", "specimen_name"}

\* The column a setter writes.
ColumnOf(name) ==
    IF name = "set_bs" THEN "bs"
    ELSE IF name = "set_ls" THEN "ls"
    ELSE IF name = "set_f_pulse" THEN "f_pulse"
    ELSE IF name = "set_u1" THEN "u1"
    ELSE IF name = "set_ur" THEN "ur"
    ELSE IF name = "set_time_between_meas" THEN "time_between_meas"
    ELSE IF name = "set_integral_time" THEN "integral_time"
    ELSE "specimen_name"

Setters == {"set_bs", "set_ls", "set_f_pulse", "set_u1", "set_ur",
            "set_time_between_meas", "set_integral_time", "set_specimen_name"}

Picofarads(v, b, l) ==
    IF v = NaN \/ b = NaN \/ l = NaN THEN NaN
    ELSE Rat(v[1] * b[1] * l[1], v[2] * b[2] * l[2] * 100000)

\* C6: right after compute_dlts_pf every row's dlts_pf is its dlts_v / ((10 /
\* bs) * (10000 / ls)), null when bs or ls is unset, and the call has changed
\* no other column and no row count.
C6_DerivedSignal ==
    [][op' = "compute_dlts_pf" =>
          /\ Len(data') = Len(data)
          /\ \A i \in 1..Len(data') :
                 /\ data'[i].dlts_pf =
                        Picofarads(data'[i].dlts_v, data'[i].bs, data'[i].ls)
                 /\ (data'[i].bs = NaN \/ data'[i].ls = NaN) => data'[i].dlts_pf = NaN
                 /\ \A c \in columns \ {"dlts_pf"} : data'[i][c] = data[i][c]]_vars

\* C6 witness: compute_dlts_pf has converted a table of two rows whose bs and
\* ls are set, to a value that is not a whole number.
C6_Witness ==
    /\ op = "compute_dlts_pf"
    /\ Len(data) = 2
    /\ data[1].bs = Num(10)
    /\ data[1].ls = Num(2)
    /\ data[1].dlts_pf = Rat(-1, 10000)
    /\ data[2].dlts_pf = Rat(1, 10000)

====
